---- MODULE Spec2Model ----
(***************************************************************************)
(* Model of the Telegram bot of src/main.py: the module-level job queue    *)
(* (video_queue), the is_processing flag, the handler coroutine            *)
(* handle_youtube_link, the worker thread process_queue and the retention  *)
(* pass cleanup_old_videos over the download directory.                    *)
(*                                                                         *)
(* Handlers are coroutines of one asyncio event loop: they can yield to    *)
(* each other only at an await, and the last await of handle_youtube_link  *)
(* is the reply_text of line 181.  Workers are real threads: every         *)
(* statement of process_queue can interleave with the handlers.            *)
(***************************************************************************)
EXTENDS Integers, Sequences, FiniteSets, TLC

\* ---------------------------------------------------------------- bounds
MaxUpdates == 2        \* number of chat messages delivered to the bot
MaxInitFiles == 11     \* largest directory content found at start-up
MaxMTime == 2          \* modification times range over 1..MaxMTime
MaxFileCode == 1       \* file codes the hosting API can return

\* ------------------------------------------------------ program constants
MAX_DOWNLOADED_VIDEOS == 10

None == 0

Updates == 1..MaxUpdates
Workers == 1..MaxUpdates     \* the thread started by the handler of update u

\* Message texts, as sequences of the units the validation regex looks at.
Texts ==
  << <<"https://", "www.", "youtube.com", "/", "x">>,
     <<"youtu.be", "/", "x">>,
     <<"youtube.com", "/">>,
     <<"see ", "https://", "youtube.com", "/", "x">> >>

TextIds == 1..Len(Texts)

\* ------------------------------------------------------------- validation
Drop(s, n) == SubSeq(s, n + 1, Len(s))

StartsWithAny(s, toks) == Len(s) > 0 /\ s[1] \in toks

\* ^(https?://)?(www\.)?(youtube\.com|youtu\.be)/.+$
IsYouTubeLink(t) ==
  LET a == IF StartsWithAny(t, {"http://", "https://"}) THEN Drop(t, 1) ELSE t
      b == IF StartsWithAny(a, {"www."}) THEN Drop(a, 1) ELSE a
  IN  /\ StartsWithAny(b, {"youtube.com", "youtu.be"})
      /\ StartsWithAny(Drop(b, 1), {"/"})
      /\ Len(Drop(b, 2)) >= 1

\* -------------------------------------------------------------- directory
\* A resident file is [path, mtime]; paths are numbers ordered as the path
\* strings are.
Paths(d) == {f.path : f \in d}

InitDir(n) == {[path |-> p, mtime |-> MaxMTime] : p \in 1..n}

InitCounts == {0, MAX_DOWNLOADED_VIDEOS, MaxInitFiles}

\* yt-dlp names the file after the video title: one path per source URL.
ArtifactPath(url) == MaxInitFiles + url

BeforeNewestFirst(f, g) == f.mtime > g.mtime \/ (f.mtime = g.mtime /\ f.path > g.path)

\* tuple order of (mtime, path), as files.sort() compares
Before(f, g) == f.mtime < g.mtime \/ (f.mtime = g.mtime /\ f.path < g.path)

RECURSIVE SortedFiles(_)
SortedFiles(d) ==
  IF d = {} THEN << >>
  ELSE LET m == CHOOSE f \in d : \A g \in d \ {f} : Before(f, g)
       IN  <<m>> \o SortedFiles(d \ {m})

\* line 149: how many of the sorted files the loop visits
EvictCountShort(n) == n - MAX_DOWNLOADED_VIDEOS - 1
EvictCountOne(n) == 1
EvictCount(n) == n - MAX_DOWNLOADED_VIDEOS

\* lines 148-150: the files selected for eviction
Victims(d) ==
  LET files == SortedFiles(d)
  IN  IF Len(files) > MAX_DOWNLOADED_VIDEOS
      THEN {files[i] : i \in 1..EvictCount(Len(files))}
      ELSE {}

\* a pass that gives up at the first OSError: the selected files up to and
\* including the first one of `failed`
AttemptedUntilFailure(d, failed) ==
  {f \in Victims(d) : \A g \in Victims(d) \cap failed : ~Before(g, f)}

\* lines 149-155: the try/except is inside the loop, so os.remove is called
\* on every selected file whichever of them raise
Attempted(d, failed) == Victims(d)

\* the directory after a pass in which os.remove raised OSError on `failed`
cleanup_old_videos(d, failed) == d \ (Attempted(d, failed) \ failed)

RemoveFileKeeps(d, p) == d
RemoveFile(d, p) == {f \in d : f.path # p}

\* ------------------------------------------------------------------ state
VARIABLES
  video_queue,     \* Queue of <<youtube_url, chat_id>>
  is_processing,   \* the module-level flag
  hpc,             \* position of the handler of each update
  text,            \* the message text of each update (0: not yet received)
  wpc,             \* position of each worker thread
  wjob,            \* worker locals: <<youtube_url, chat_id>>
  wfile,           \* worker local downloaded_file
  wurl,            \* worker local streamtape_url
  dir,             \* regular files of DOWNLOAD_DIR
  putOrder,        \* history: chat ids in the order of video_queue.put
  trace,           \* history: the steps the workers executed
  passes,          \* history: the retention passes run on their own
  mpc,             \* main_workflow.main: position
  folder,          \* main_workflow: DOWNLOAD_DESTINATION, [exists, videos]
  mlog,            \* main_workflow: scripts started and lines printed
  exit_status      \* main_workflow: exit status of the process (-1: running)

vars == <<video_queue, is_processing, hpc, text, wpc, wjob, wfile, wurl,
          dir, putOrder, trace, passes, mpc, folder, mlog, exit_status>>

\* the state of the bot: queue, flag, handlers and workers
qvars == <<video_queue, is_processing, hpc, text, wpc, wjob, wfile, wurl,
           putOrder, trace>>

\* the state of the batch workflow of main_workflow.py
mvars == <<mpc, folder, mlog, exit_status>>

\* what the bot never touches
xvars == <<passes, mvars>>

Event(w, kind, arg, removed) ==
  [worker |-> w, chat_id |-> wjob[w][2], kind |-> kind, arg |-> arg,
   removed |-> removed]

Init ==
  /\ video_queue = << >>
  /\ is_processing = FALSE
  /\ hpc = [u \in Updates |-> "new"]
  /\ text = [u \in Updates |-> 0]
  /\ wpc = [w \in Workers |-> "unstarted"]
  /\ wjob = [w \in Workers |-> <<0, 0>>]
  /\ wfile = [w \in Workers |-> None]
  /\ wurl = [w \in Workers |-> None]
  /\ \E n \in InitCounts : dir = InitDir(n)
  /\ putOrder = << >>
  /\ trace = << >>
  /\ passes = << >>
  /\ mpc = "start"
  /\ folder = [exists |-> FALSE, videos |-> 0]
  /\ mlog = << >>
  /\ exit_status = -1

\* ------------------------------------------------------ handle_youtube_link
hvars == <<hpc, text>>
wvars == <<wpc, wjob, wfile, wurl>>

\* a handler that is running on the event loop past its last await
OnLoop(u) == hpc[u] \in {"test", "set", "start"}

\* lines 177-179: only a text that matches goes past the early return
AcceptsAll(matches) == TRUE
Accepts(matches) == matches

\* lines 175-181: validate, reply, and (for a valid link) await the reply
Receive(u) ==
  /\ hpc[u] = "new"
  /\ \A v \in Updates : v < u => hpc[v] # "new"
  /\ \E t \in TextIds :
       /\ text' = [text EXCEPT ![u] = t]
       /\ hpc' = [hpc EXCEPT ![u] =
                    IF Accepts(IsYouTubeLink(Texts[t])) THEN "reply" ELSE "rejected"]
  /\ UNCHANGED <<xvars, video_queue, is_processing, wvars, dir, putOrder, trace>>

\* line 182: the coroutine resumes and puts the job
HPut(u) ==
  /\ hpc[u] = "reply"
  /\ \A v \in Updates : ~OnLoop(v)
  /\ video_queue' = Append(video_queue, <<text[u], u>>)
  /\ putOrder' = Append(putOrder, u)
  /\ hpc' = [hpc EXCEPT ![u] = "test"]
  /\ UNCHANGED <<xvars, is_processing, text, wvars, dir, trace>>

ShouldStartAlways(flag) == TRUE
ShouldStart(flag) == ~flag

\* line 186
HTest(u) ==
  /\ hpc[u] = "test"
  /\ hpc' = [hpc EXCEPT ![u] = IF ShouldStart(is_processing) THEN "set" ELSE "done"]
  /\ UNCHANGED <<xvars, video_queue, is_processing, text, wvars, dir, putOrder, trace>>

FlagLeftClear == FALSE
FlagOnStart == TRUE

\* line 187
HSet(u) ==
  /\ hpc[u] = "set"
  /\ is_processing' = FlagOnStart
  /\ hpc' = [hpc EXCEPT ![u] = "start"]
  /\ UNCHANGED <<xvars, video_queue, text, wvars, dir, putOrder, trace>>

\* line 188
HStart(u) ==
  /\ hpc[u] = "start"
  /\ wpc' = [wpc EXCEPT ![u] = "check"]
  /\ hpc' = [hpc EXCEPT ![u] = "done"]
  /\ UNCHANGED <<xvars, video_queue, is_processing, text, wjob, wfile, wurl, dir,
                 putOrder, trace>>

\* ------------------------------------------------------------ process_queue
Goto(w, l) == wpc' = [wpc EXCEPT ![w] = l]

Log(w, kind, arg, removed) == trace' = Append(trace, Event(w, kind, arg, removed))

\* line 197: while not video_queue.empty()
LoopConditionAlways(q) == TRUE
LoopCondition(q) == q # << >>

\* line 197
WCheck(w) ==
  /\ wpc[w] = "check"
  /\ Goto(w, IF LoopCondition(video_queue) THEN "get" ELSE "clear")
  /\ UNCHANGED <<xvars, video_queue, is_processing, hvars, wjob, wfile, wurl, dir,
                 putOrder, trace>>

QueueGetLast(q) == q[Len(q)]
QueueGet(q) == Head(q)

QueueRestKeeps(q) == q

\* what Queue.get() leaves in the queue
QueueRest(q) ==
  LET i == CHOOSE k \in 1..Len(q) : q[k] = QueueGet(q)
  IN  SubSeq(q, 1, i - 1) \o SubSeq(q, i + 1, Len(q))

\* line 198: Queue.get() blocks while the queue is empty.  The locals
\* downloaded_file and streamtape_url are not read before lines 206 and 210
\* assign them, so their stale values are dropped here.
WGet(w) ==
  /\ wpc[w] = "get"
  /\ video_queue # << >>
  /\ wjob' = [wjob EXCEPT ![w] = QueueGet(video_queue)]
  /\ video_queue' = QueueRest(video_queue)
  /\ wfile' = [wfile EXCEPT ![w] = None]
  /\ wurl' = [wurl EXCEPT ![w] = None]
  /\ trace' = Append(trace, [worker |-> w, chat_id |-> QueueGet(video_queue)[2],
                             kind |-> "dequeue",
                             arg |-> QueueGet(video_queue)[1], removed |-> {}])
  /\ Goto(w, "notify_start")
  /\ UNCHANGED <<xvars, is_processing, hvars, dir, putOrder>>

\* lines 231-239: send_message_to_chat catches every exception of the send,
\* so the caller goes on to `next` whether the message was delivered or not
AfterSendAborts(ok, next) == IF ok THEN next ELSE "done"
AfterSend(ok, next) == next

\* line 201
WNotifyStart(w) ==
  /\ wpc[w] = "notify_start"
  /\ Log(w, "notify_start", wjob[w][1], {})
  /\ Goto(w, AfterSend(TRUE, "download"))
  /\ UNCHANGED <<xvars, video_queue, is_processing, hvars, wjob, wfile, wurl, dir, putOrder>>

FileTruthyAlways(f) == TRUE
FileTruthy(f) == f # None

\* lines 204-208: download_youtube_video returns the path or None.  The
\* file is written by yt-dlp, which also chooses its modification time
\* (the code never sets it), so mtime is an input of the step.
WDownload(w) ==
  /\ wpc[w] = "download"
  /\ \/ /\ wfile' = [wfile EXCEPT ![w] = None]
        /\ dir' = dir
     \/ \E mt \in 1..MaxMTime :
          LET p == ArtifactPath(wjob[w][1])
          IN  /\ wfile' = [wfile EXCEPT ![w] = p]
              /\ dir' = {f \in dir : f.path # p} \cup {[path |-> p, mtime |-> mt]}
  /\ Log(w, "download", wfile'[w], {})
  /\ Goto(w, IF FileTruthy(wfile'[w]) THEN "notify_uploading"
                                          ELSE "notify_download_failed")
  /\ UNCHANGED <<xvars, video_queue, is_processing, hvars, wjob, wurl, putOrder>>

\* line 209
WNotifyUploading(w) ==
  /\ wpc[w] = "notify_uploading"
  /\ Log(w, "notify_uploading", wfile[w], {})
  /\ Goto(w, AfterSend(TRUE, "upload"))
  /\ UNCHANGED <<xvars, video_queue, is_processing, hvars, wjob, wfile, wurl, dir, putOrder>>

UrlTruthyNever(s) == FALSE
UrlTruthy(s) == s # None

\* lines 210-211: upload_to_streamtape returns the URL or None; it opens the
\* file, so it cannot succeed on a path that is not there
WUpload(w) ==
  /\ wpc[w] = "upload"
  /\ \/ wurl' = [wurl EXCEPT ![w] = None]
     \/ /\ wfile[w] \in Paths(dir)
        /\ \E code \in 1..MaxFileCode : wurl' = [wurl EXCEPT ![w] = code]
  /\ Log(w, "upload", wurl'[w], {})
  /\ Goto(w, IF UrlTruthy(wurl'[w]) THEN "notify_success"
                                       ELSE "notify_upload_failed")
  /\ UNCHANGED <<xvars, video_queue, is_processing, hvars, wjob, wfile, dir, putOrder>>

\* line 212
WNotifySuccess(w) ==
  /\ wpc[w] = "notify_success"
  /\ Log(w, "notify_success", wurl[w], {})
  /\ Goto(w, AfterSend(TRUE, "remove"))
  /\ UNCHANGED <<xvars, video_queue, is_processing, hvars, wjob, wfile, wurl, dir, putOrder>>

\* lines 214-218: os.remove, an OSError is logged and ignored
WRemove(w) ==
  /\ wpc[w] = "remove"
  /\ \/ /\ wfile[w] \in Paths(dir)
        /\ dir' = RemoveFile(dir, wfile[w])
        /\ Log(w, "remove", wfile[w], {wfile[w]})
     \/ /\ dir' = dir
        /\ Log(w, "remove", wfile[w], {})
  /\ Goto(w, "cleanup")
  /\ UNCHANGED <<xvars, video_queue, is_processing, hvars, wjob, wfile, wurl, putOrder>>

\* where the worker goes after a failure branch: lines 219-225 fall through
\* to the retention pass and back to the loop test
AfterFailureStops == "clear"
AfterFailure == "cleanup"

\* line 220
WNotifyUploadFailed(w) ==
  /\ wpc[w] = "notify_upload_failed"
  /\ Log(w, "notify_upload_failed", wfile[w], {})
  /\ Goto(w, AfterSend(TRUE, AfterFailure))
  /\ UNCHANGED <<xvars, video_queue, is_processing, hvars, wjob, wfile, wurl, dir, putOrder>>

\* line 222
WNotifyDownloadFailed(w) ==
  /\ wpc[w] = "notify_download_failed"
  /\ Log(w, "notify_download_failed", wjob[w][1], {})
  /\ Goto(w, AfterSend(TRUE, AfterFailure))
  /\ UNCHANGED <<xvars, video_queue, is_processing, hvars, wjob, wfile, wurl, dir, putOrder>>

\* line 225: the retention pass, run on every branch; its trace entry
\* carries the paths whose os.remove raised
WCleanup(w) ==
  /\ wpc[w] = "cleanup"
  /\ \E failed \in SUBSET Victims(dir) :
       /\ dir' = cleanup_old_videos(dir, failed)
       /\ Log(w, "cleanup", Paths(failed), Paths(dir) \ Paths(dir'))
  /\ Goto(w, "check")
  /\ UNCHANGED <<xvars, video_queue, is_processing, hvars, wjob, wfile, wurl, putOrder>>

\* line 227
WClear(w) ==
  /\ wpc[w] = "clear"
  /\ is_processing' = FALSE
  /\ Goto(w, "log")
  /\ UNCHANGED <<xvars, video_queue, hvars, wjob, wfile, wurl, dir, putOrder, trace>>

\* line 228: the thread returns
WLog(w) ==
  /\ wpc[w] = "log"
  /\ Goto(w, "done")
  /\ UNCHANGED <<xvars, video_queue, is_processing, hvars, wjob, wfile, wurl, dir,
                 putOrder, trace>>

Next ==
  \/ \E u \in Updates : Receive(u)
  \/ \E u \in Updates : HPut(u)
  \/ \E u \in Updates : HTest(u)
  \/ \E u \in Updates : HSet(u)
  \/ \E u \in Updates : HStart(u)
  \/ \E w \in Workers : WCheck(w)
  \/ \E w \in Workers : WGet(w)
  \/ \E w \in Workers : WNotifyStart(w)
  \/ \E w \in Workers : WDownload(w)
  \/ \E w \in Workers : WNotifyUploading(w)
  \/ \E w \in Workers : WUpload(w)
  \/ \E w \in Workers : WNotifySuccess(w)
  \/ \E w \in Workers : WRemove(w)
  \/ \E w \in Workers : WNotifyUploadFailed(w)
  \/ \E w \in Workers : WNotifyDownloadFailed(w)
  \/ \E w \in Workers : WCleanup(w)
  \/ \E w \in Workers : WClear(w)
  \/ \E w \in Workers : WLog(w)

Spec == Init /\ [][Next]_vars

\* ------------------------------------------------ notifications that fail
MaxUndelivered == 2     \* notifications that fail in one run

\* the statement that follows each notification of process_queue
NotifyPcs == {"notify_start", "notify_uploading", "notify_success",
              "notify_upload_failed", "notify_download_failed"}

NotifyNext(pc) ==
  CASE pc = "notify_start" -> "download"
    [] pc = "notify_uploading" -> "upload"
    [] pc = "notify_success" -> "remove"
    [] OTHER -> AfterFailure

\* lines 201, 209, 212, 220, 222 when bot.send_message raises: line 238
\* logs the error and the worker goes on
WNotifyUndelivered(w) ==
  /\ wpc[w] \in NotifyPcs
  /\ Len(SelectSeq(trace, LAMBDA e : e.kind = "undelivered")) < MaxUndelivered
  /\ Log(w, "undelivered", wpc[w], {})
  /\ Goto(w, AfterSend(FALSE, NotifyNext(wpc[w])))
  /\ UNCHANGED <<xvars, video_queue, is_processing, hvars, wjob, wfile, wurl, dir, putOrder>>

NextNotify == Next \/ \E w \in Workers : WNotifyUndelivered(w)

SpecNotify == Init /\ [][NextNotify]_vars

\* ------------------------------------------------- retention pass on its own
\* cleanup_old_videos applied to directories of every shape: the files
\* 1..n, of which every third has any modification time and the others the
\* newest one, so that ties and files older than the rest both occur.
MaxPasses == 2

RetentionCounts == {0, MAX_DOWNLOADED_VIDEOS, MaxInitFiles, MaxInitFiles + 1}

RetentionDirs ==
  UNION {
    { {[path |-> p, mtime |-> IF p % 3 = 0 THEN mt[p] ELSE MaxMTime] : p \in 1..n}
        : mt \in [{p \in 1..n : p % 3 = 0} -> 1..MaxMTime] }
    : n \in RetentionCounts }

RInit ==
  /\ video_queue = << >>
  /\ is_processing = FALSE
  /\ hpc = [u \in Updates |-> "new"]
  /\ text = [u \in Updates |-> 0]
  /\ wpc = [w \in Workers |-> "unstarted"]
  /\ wjob = [w \in Workers |-> <<0, 0>>]
  /\ wfile = [w \in Workers |-> None]
  /\ wurl = [w \in Workers |-> None]
  /\ dir \in RetentionDirs
  /\ putOrder = << >>
  /\ trace = << >>
  /\ passes = << >>
  /\ mpc = "start"
  /\ folder = [exists |-> FALSE, videos |-> 0]
  /\ mlog = << >>
  /\ exit_status = -1

\* lines 141-157: one call of cleanup_old_videos
EnforceLimit ==
  /\ Len(passes) < MaxPasses
  /\ \E failed \in SUBSET Victims(dir) :
       /\ dir' = cleanup_old_videos(dir, failed)
       /\ passes' = Append(passes, [before |-> dir, failed |-> failed, after |-> dir'])
  /\ UNCHANGED <<qvars, mvars>>

\* a file appears in the directory between two passes (line 206)
WriteFile ==
  /\ Len(passes) < MaxPasses
  /\ MaxInitFiles + 2 \notin Paths(dir)
  /\ \E mt \in 1..MaxMTime :
       dir' = dir \cup {[path |-> MaxInitFiles + 2, mtime |-> mt]}
  /\ UNCHANGED <<qvars, passes, mvars>>

RNext == EnforceLimit \/ WriteFile

SpecRetention == RInit /\ [][RNext]_vars

\* ------------------------------------------------------- main_workflow.py
\* The batch workflow: main() makes the download folder, then runs the
\* download script and the upload script as child processes through
\* run_script.  A child's exit status is 0, 1 (uncaught exception, such as a
\* failed import) or 2 (the interpreter cannot open the script file).
MaxUrls == 2           \* lines of youtube_urls.txt
MaxVideos == 2         \* videos in the folder when the workflow starts

ExitCodes == {0, 1, 2}

MEvent(what, script, rc, n) == [what |-> what, script |-> script, rc |-> rc, n |-> n]

MInit ==
  /\ video_queue = << >>
  /\ is_processing = FALSE
  /\ hpc = [u \in Updates |-> "new"]
  /\ text = [u \in Updates |-> 0]
  /\ wpc = [w \in Workers |-> "unstarted"]
  /\ wjob = [w \in Workers |-> <<0, 0>>]
  /\ wfile = [w \in Workers |-> None]
  /\ wurl = [w \in Workers |-> None]
  /\ dir = {}
  /\ putOrder = << >>
  /\ trace = << >>
  /\ passes = << >>
  /\ mpc = "start"
  /\ \E n \in 0..MaxVideos :
       folder \in {[exists |-> FALSE, videos |-> 0], [exists |-> TRUE, videos |-> n]}
  /\ mlog = << >>
  /\ exit_status = -1

\* main_workflow.py lines 42-50
MEnsureFolder ==
  /\ mpc = "start"
  /\ folder' = [folder EXCEPT !.exists = TRUE]
  /\ mlog' = Append(mlog, MEvent("start", "main", 0, 0))
  /\ mpc' = "run_download"
  /\ UNCHANGED <<qvars, dir, passes, exit_status>>

\* run_script lines 30-39: what follows a child that returned rc
AfterScriptIgnores(rc, next) == next
AfterScript(rc, next) == IF rc = 0 THEN next ELSE "exit1"

\* run_script lines 17-25: subprocess.run starts the interpreter on the
\* script, or raises FileNotFoundError when there is no interpreter to start
Launch(script, running) ==
  \/ /\ mlog' = Append(mlog, MEvent("launch", script, 0, 0))
     /\ mpc' = running
     /\ exit_status' = exit_status
  \/ /\ mlog' = Append(mlog, MEvent("not_found", script, 0, 0))
     /\ mpc' = "exited"
     /\ exit_status' = 1

\* line 57
MLaunchDownload ==
  /\ mpc = "run_download"
  /\ Launch("download", "downloading")
  /\ UNCHANGED <<qvars, dir, passes, folder>>

\* download_videos.py: the child ends with status 0 after trying every URL
\* (a missing or empty URL file and a failed download are printed, lines
\* 15-24 and 36-42), or with a non-zero status when it cannot run; `n` is
\* the number of videos it saved
MDownloadScript ==
  /\ mpc = "downloading"
  /\ \E rc \in ExitCodes : \E n \in 0..MaxUrls :
       /\ rc = 2 => n = 0
       /\ folder' = [folder EXCEPT !.videos = @ + n]
       /\ mlog' = Append(mlog, MEvent("returned", "download", rc, n))
       /\ mpc' = AfterScript(rc, "run_upload")
  /\ UNCHANGED <<qvars, dir, passes, exit_status>>

\* line 61
MLaunchUpload ==
  /\ mpc = "run_upload"
  /\ Launch("upload", "uploading")
  /\ UNCHANGED <<qvars, dir, passes, folder>>

\* upload_to_streamtape.py: the child tries every video of the folder and
\* ends with status 0 (failed uploads are printed, lines 28-41), or with a
\* non-zero status when it cannot run; `n` is the number it uploaded
MUploadScript ==
  /\ mpc = "uploading"
  /\ \E rc \in ExitCodes : \E n \in 0..folder.videos :
       /\ rc = 2 => n = 0
       /\ mlog' = Append(mlog, MEvent("returned", "upload", rc, n))
       /\ mpc' = AfterScript(rc, "report")
  /\ UNCHANGED <<qvars, dir, passes, folder, exit_status>>

\* run_script lines 30-36: CalledProcessError, sys.exit(1)
MExitOnError ==
  /\ mpc = "exit1"
  /\ exit_status' = 1
  /\ mpc' = "exited"
  /\ UNCHANGED <<qvars, dir, passes, folder, mlog>>

\* line 63 and the normal end of the process
MReport ==
  /\ mpc = "report"
  /\ mlog' = Append(mlog, MEvent("completed", "main", 0, 0))
  /\ exit_status' = 0
  /\ mpc' = "exited"
  /\ UNCHANGED <<qvars, dir, passes, folder>>

MNext ==
  \/ MEnsureFolder
  \/ MLaunchDownload
  \/ MDownloadScript
  \/ MLaunchUpload
  \/ MUploadScript
  \/ MExitOnError
  \/ MReport

SpecWorkflow == MInit /\ [][MNext]_vars

TypeOK ==
  /\ is_processing \in BOOLEAN
  /\ \A u \in Updates : text[u] \in 0..Len(Texts)
  /\ \A f \in dir : f.mtime \in 1..MaxMTime

\* ------------------------------------------------------- reading the trace
JobTrace(c) == SelectSeq(trace, LAMBDA e : e.chat_id = c)

KindsOf(s) == [i \in DOMAIN s |-> s[i].kind]

NotifKinds == {"notify_start", "notify_uploading", "notify_success",
               "notify_upload_failed", "notify_download_failed"}

FailureKinds == {"notify_upload_failed", "notify_download_failed"}

Notifs(c) == SelectSeq(JobTrace(c), LAMBDA e : e.kind \in NotifKinds)

Has(c, kind) == \E i \in DOMAIN trace : trace[i].chat_id = c /\ trace[i].kind = kind

Count(c, kinds) == Len(SelectSeq(JobTrace(c), LAMBDA e : e.kind \in kinds))

ArgOf(c, kind) ==
  LET i == CHOOSE k \in DOMAIN trace : trace[k].chat_id = c /\ trace[k].kind = kind
  IN  trace[i].arg

IndexOf(c, kind) ==
  CHOOSE k \in DOMAIN trace : trace[k].chat_id = c /\ trace[k].kind = kind

Finished(c) == Has(c, "cleanup")

FetchFailed(c) == Has(c, "download") /\ ArgOf(c, "download") = None
FetchOk(c) == Has(c, "download") /\ ArgOf(c, "download") # None
UploadFailed(c) == Has(c, "upload") /\ ArgOf(c, "upload") = None
UploadOk(c) == Has(c, "upload") /\ ArgOf(c, "upload") # None

IsPrefix(s, t) == Len(s) <= Len(t) /\ \A i \in DOMAIN s : s[i] = t[i]

DequeueOrder ==
  LET d == SelectSeq(trace, LAMBDA e : e.kind = "dequeue")
  IN  [i \in DOMAIN d |-> d[i].chat_id]

\* the job whose processing has just finished, if the last step was the
\* retention pass that ends a job
JustFinished(c) ==
  Len(trace) > 0 /\ trace[Len(trace)].kind = "cleanup" /\ trace[Len(trace)].chat_id = c

Running(w) == wpc[w] \notin {"unstarted", "done"}
Active(w) == wpc[w] \notin {"unstarted", "log", "done"}
Started == {w \in Workers : wpc[w] # "unstarted"}

\* ---------------------------------------------------------------- claims

\* C1: no reachable state has a non-empty video_queue while no worker is
\* running and no handler is still on its way to start one.
NoJobStranded ==
  ~ /\ video_queue # << >>
    /\ \A w \in Workers : ~Running(w)
    /\ \A u \in Updates : hpc[u] \in {"new", "rejected", "done"}

ProcessedInSubmissionOrder ==
  /\ IsPrefix(DequeueOrder, putOrder)
  /\ \A i \in DOMAIN trace :
       (i > 1 /\ trace[i].kind = "dequeue") => trace[i - 1].kind = "cleanup"

TwoIncarnationsInOrder ==
  \E i, j \in DOMAIN trace :
    /\ i < j
    /\ trace[i].kind = "dequeue" /\ trace[j].kind = "dequeue"
    /\ trace[i].worker # trace[j].worker
    /\ trace[j].chat_id = putOrder[2]

\* C4: the steps of one job form one uninterrupted block of the trace: a
\* block ends with the retention pass and the next begins with a dequeue.
JobsStrictlySerialized ==
  /\ \A i, k \in DOMAIN trace :
       (i < k /\ trace[i].chat_id = trace[k].chat_id)
         => \A j \in i..k : trace[j].chat_id = trace[i].chat_id
  /\ \A i \in DOMAIN trace :
       (i > 1 /\ trace[i].chat_id # trace[i - 1].chat_id)
         => trace[i - 1].kind = "cleanup" /\ trace[i].kind = "dequeue"

TwoJobsNotified ==
  /\ Len(putOrder) >= 2
  /\ Len(Notifs(putOrder[1])) >= 2
  /\ Len(Notifs(putOrder[2])) >= 2

\* C5: a failure branch leads to the retention pass and back to the loop
\* test, where a non-empty queue makes the worker take the head job; with
\* A's fetch failing and B succeeding, A is finished before B is dequeued
\* and, B's file having been removed, neither artifact is on disk.
FailureStep(w) ==
  /\ (wpc[w] \in FailureKinds /\ wpc'[w] # wpc[w]) => wpc'[w] = "cleanup"
  /\ (wpc[w] = "cleanup" /\ wpc'[w] # wpc[w]) => wpc'[w] = "check"
  /\ (wpc[w] = "check" /\ video_queue # << >> /\ wpc'[w] # wpc[w])
       => wpc'[w] = "get"
  /\ (wpc[w] = "get" /\ wpc'[w] # wpc[w])
       => wpc'[w] = "notify_start" /\ wjob'[w] = Head(video_queue)

FailThenSucceed ==
  /\ Len(putOrder) >= 2
  /\ FetchFailed(putOrder[1])
  /\ UploadOk(putOrder[2])

ExampleAB ==
  FailThenSucceed =>
    /\ Finished(putOrder[1])
    /\ IndexOf(putOrder[1], "cleanup") < IndexOf(putOrder[2], "dequeue")
    /\ Count(putOrder[1], FailureKinds) = 1
    /\ Count(putOrder[2], FailureKinds) = 0
    /\ (/\ JustFinished(putOrder[2])
        /\ \E i \in DOMAIN trace : trace[i].kind = "remove" /\ trace[i].removed # {})
         => \A u \in {putOrder[1], putOrder[2]} :
              ArtifactPath(text[u]) \notin Paths(dir)

FetchFailureNotifies ==
  \A c \in Updates : FetchFailed(c) =>
    /\ ~Has(c, "upload")
    /\ IsPrefix(KindsOf(Notifs(c)), <<"notify_start", "notify_download_failed">>)
    /\ Finished(c) => Len(Notifs(c)) = 2

FetchFailedJobFinished == \E c \in Updates : FetchFailed(c) /\ Finished(c)

\* C7: no step of a job whose fetch failed removes a file.
FetchFailureDeletesNothing ==
  \A i \in DOMAIN trace : FetchFailed(trace[i].chat_id) => trace[i].removed = {}

\* C8: when the worker finishes a job whose fetch succeeded and whose upload
\* failed, the artifact is in the directory and one failure notification
\* was sent.
UploadFailureKeepsArtifact ==
  \A c \in Updates : (JustFinished(c) /\ FetchOk(c) /\ UploadFailed(c)) =>
    /\ ArgOf(c, "download") \in Paths(dir)
    /\ Count(c, FailureKinds) = 1

\* C9: a job whose fetch and upload succeeded is notified with start,
\* upload-start (naming the file) and success (carrying the URL), nothing else.
SuccessNotifications ==
  \A c \in Updates : UploadOk(c) =>
    /\ IsPrefix(KindsOf(Notifs(c)),
                <<"notify_start", "notify_uploading", "notify_success">>)
    /\ ArgOf(c, "notify_uploading") = ArgOf(c, "download")
    /\ Has(c, "notify_success") => ArgOf(c, "notify_success") = ArgOf(c, "upload")
    /\ Finished(c) => Len(Notifs(c)) = 3

SuccessfulJobFinished == \E c \in Updates : UploadOk(c) /\ Finished(c)

\* C10 as stated: when the worker finishes a fully successful job, the
\* artifact is not on disk, the removal came between the success
\* notification and the single retention pass.
SuccessOrder(c) ==
  KindsOf(JobTrace(c)) = <<"dequeue", "notify_start", "download",
                           "notify_uploading", "upload", "notify_success",
                           "remove", "cleanup">>

SuccessArtifactGone ==
  \A c \in Updates : (JustFinished(c) /\ UploadOk(c)) =>
    /\ SuccessOrder(c)
    /\ ArgOf(c, "download") \notin Paths(dir)

\* C10 amended: one removal attempt between the success notification and
\* the single retention pass; the artifact is off disk when that attempt
\* did not raise.
SuccessArtifactGoneUnlessRemoveFails ==
  \A c \in Updates : (JustFinished(c) /\ UploadOk(c)) =>
    /\ SuccessOrder(c)
    /\ trace[IndexOf(c, "remove")].removed # {}
         => ArgOf(c, "download") \notin Paths(dir)

SuccessfulJobRemoved ==
  \E c \in Updates :
    /\ JustFinished(c) /\ UploadOk(c)
    /\ trace[IndexOf(c, "remove")].removed # {}

\* ------------------------------------------------ reading the pass history
Min(a, b) == IF a < b THEN a ELSE b
Max(a, b) == IF a > b THEN a ELSE b

\* the files a pass called os.remove on: those it removed and those that raised
Tried(r) == (r.before \ r.after) \cup r.failed

SwapPath(x, p, q) == IF x = p THEN q ELSE IF x = q THEN p ELSE x

\* the directory d with the names p and q exchanged
Rename(d, p, q) == {[path |-> SwapPath(f.path, p, q), mtime |-> f.mtime] : f \in d}

\* C11 as stated: after every retention pass at most MAX_DOWNLOADED_VIDEOS
\* files are resident, also when deletions fail.
PassLeavesAtMostMax ==
  \A i \in DOMAIN passes : Cardinality(passes[i].after) <= MAX_DOWNLOADED_VIDEOS

\* C11 amended: after every retention pass the resident files number the
\* smaller of the count before and MAX_DOWNLOADED_VIDEOS, plus one for each
\* deletion that failed in the pass.
PassLeavesMaxPlusFailed ==
  \A i \in DOMAIN passes :
    Cardinality(passes[i].after) =
      Min(Cardinality(passes[i].before), MAX_DOWNLOADED_VIDEOS)
        + Cardinality(passes[i].failed)

PassOverFullDirectory ==
  \E i \in DOMAIN passes :
    /\ Cardinality(passes[i].before) > MAX_DOWNLOADED_VIDEOS + 1
    /\ Cardinality(passes[i].failed) = 1
    /\ Cardinality(passes[i].after) = MAX_DOWNLOADED_VIDEOS + 1

\* C12 as stated: a pass deletes exactly the n - m oldest files (none when
\* n <= m), and exchanging two file names exchanges them in the selection.
PassDeletesOldestByTimeOnly ==
  \A i \in DOMAIN passes :
    LET r == passes[i]
        n == Cardinality(r.before)
    IN  /\ Cardinality(r.before \ r.after) = Max(0, n - MAX_DOWNLOADED_VIDEOS)
        /\ \A v \in r.before \ r.after : \A k \in r.after : v.mtime <= k.mtime
        /\ \A p, q \in Paths(r.before) :
             Victims(Rename(r.before, p, q)) = Rename(Victims(r.before), p, q)

\* C12 amended: a pass calls os.remove on exactly the first n - m files in
\* ascending order of (modification time, path), none when n <= m; the
\* files deleted are those of them whose removal did not fail.
PassTriesOldestByTimeThenPath ==
  \A i \in DOMAIN passes :
    LET r == passes[i]
        n == Cardinality(r.before)
    IN  /\ Cardinality(Tried(r)) = Max(0, n - MAX_DOWNLOADED_VIDEOS)
        /\ \A v \in Tried(r) : \A k \in r.before \ Tried(r) :
             \/ v.mtime < k.mtime
             \/ v.mtime = k.mtime /\ v.path < k.path
        /\ r.after = r.before \ (Tried(r) \ r.failed)

PassBreaksTieByPath ==
  \E i \in DOMAIN passes :
    /\ Cardinality(passes[i].before \ passes[i].after) = 2
    /\ \E v \in Tried(passes[i]) : \E k \in passes[i].after :
         v.mtime = k.mtime /\ v.path < k.path

\* C13 as stated: a pass that follows a pass with no file written in
\* between leaves the directory as the first pass left it.
SecondPassChangesNothing ==
  \A i \in DOMAIN passes :
    (i > 1 /\ passes[i].before = passes[i - 1].after)
      => passes[i].after = passes[i].before

\* C13 amended: a pass that follows a pass in which no deletion failed,
\* with no file written in between, deletes nothing.
SecondPassChangesNothingAfterCleanPass ==
  \A i \in DOMAIN passes :
    (i > 1 /\ passes[i].before = passes[i - 1].after /\ passes[i - 1].failed = {})
      => passes[i].after = passes[i].before

TwoPassesInARow ==
  /\ Len(passes) >= 2
  /\ passes[2].before = passes[1].after
  /\ passes[1].failed = {}
  /\ Cardinality(passes[1].before \ passes[1].after) = 2
  /\ passes[2].after = passes[2].before

\* C14: in the worker's retention pass every selected file whose removal
\* does not raise is removed, whichever other removals raise, and the worker
\* goes back to the loop test.
CleanupStep(w) ==
  (wpc[w] = "cleanup" /\ wpc'[w] # "cleanup") =>
    /\ Paths(dir) \ Paths(dir') = Paths(Victims(dir)) \ trace'[Len(trace')].arg
    /\ wpc'[w] = "check"
    /\ video_queue' = video_queue

RemovalFailureSkipped == [][\A w \in Workers : CleanupStep(w)]_vars

FailedRemovalThenNextJob ==
  \E i \in DOMAIN trace :
    /\ trace[i].kind = "cleanup"
    /\ trace[i].arg # {}
    /\ trace[i].removed # {}
    /\ i < Len(trace)
    /\ trace[i + 1].kind = "dequeue"

\* C15: a notification that is not delivered leaves the worker on the same
\* path: it goes on to the statement after the notification with the queue,
\* the flag, the directory and its locals untouched, and the fetch, upload,
\* deletion and retention steps of every job are those its fetch and upload
\* results call for.
PipelineKinds == {"dequeue", "download", "upload", "remove", "cleanup"}

Pipeline(c) == KindsOf(SelectSeq(JobTrace(c), LAMBDA e : e.kind \in PipelineKinds))

ExpectedPipeline(c) ==
  IF FetchFailed(c) THEN <<"dequeue", "download", "cleanup">>
  ELSE IF UploadFailed(c) THEN <<"dequeue", "download", "upload", "cleanup">>
  ELSE <<"dequeue", "download", "upload", "remove", "cleanup">>

NotifyStep(w) ==
  (wpc[w] \in NotifyPcs /\ wpc'[w] # wpc[w]) =>
    /\ wpc'[w] = (CASE wpc[w] = "notify_start" -> "download"
                    [] wpc[w] = "notify_uploading" -> "upload"
                    [] wpc[w] = "notify_success" -> "remove"
                    [] OTHER -> "cleanup")
    /\ UNCHANGED <<video_queue, is_processing, dir, wjob, wfile, wurl>>

PipelineShape ==
  /\ \A c \in Updates : IsPrefix(Pipeline(c), ExpectedPipeline(c))
  /\ IsPrefix(DequeueOrder, putOrder)

UndeliveredChangesNothing ==
  []PipelineShape /\ [][\A w \in Workers : NotifyStep(w)]_vars

UndeliveredJobDone ==
  \E c \in Updates :
    /\ JustFinished(c) /\ UploadOk(c)
    /\ Count(c, {"undelivered"}) = 2
    /\ Count(c, NotifKinds) = 1
    /\ ArgOf(c, "download") \notin Paths(dir)

\* C16: a submission whose text fails validation is rejected for good with
\* the queue, the flag and the workers untouched; it is never put, and every
\* job in the queue or dequeued carries a text that passed validation.
RejectStep(u) ==
  /\ (hpc[u] = "new" /\ hpc'[u] # "new" /\ ~IsYouTubeLink(Texts[text'[u]]))
       => /\ hpc'[u] = "rejected"
          /\ UNCHANGED <<video_queue, is_processing, wpc, putOrder>>
  /\ hpc[u] = "rejected" => hpc'[u] = "rejected"

OnlyValidJobs ==
  /\ \A i \in DOMAIN video_queue : IsYouTubeLink(Texts[video_queue[i][1]])
  /\ \A i \in DOMAIN trace :
       trace[i].kind = "dequeue" => IsYouTubeLink(Texts[trace[i].arg])
  /\ \A u \in Updates :
       hpc[u] = "rejected" => \A i \in DOMAIN putOrder : putOrder[i] # u

InvalidRejectedBeforeEnqueue ==
  []OnlyValidJobs /\ [][\A u \in Updates : RejectStep(u)]_vars

RejectedWhileWorking ==
  /\ \E u \in Updates : hpc[u] = "rejected"
  /\ \E w \in Workers : wpc[w] = "download"
  /\ video_queue = << >>

\* C17: every job is put once, dequeued at most once and by one worker,
\* fetched at most once and uploaded at most once, and a job that has been
\* dequeued is never in the queue again.
HandledOnce ==
  /\ \A i, j \in DOMAIN putOrder : putOrder[i] = putOrder[j] => i = j
  /\ \A c \in Updates :
       /\ Count(c, {"dequeue"}) <= 1
       /\ Count(c, {"download"}) <= 1
       /\ Count(c, {"upload"}) <= 1
       /\ \A i, j \in DOMAIN trace :
            (trace[i].chat_id = c /\ trace[j].chat_id = c)
              => trace[i].worker = trace[j].worker
  /\ \A i \in DOMAIN video_queue : ~Has(video_queue[i][2], "dequeue")

FailedJobLeftBehind ==
  /\ Len(putOrder) >= 2
  /\ FetchFailed(putOrder[1])
  /\ UploadFailed(putOrder[2])
  /\ JustFinished(putOrder[2])
  /\ video_queue = << >>

\* C18: once every submission has been handled and every worker has
\* returned, is_processing is False and video_queue is empty.
QuiescentIsEmpty ==
  (/\ \A u \in Updates : hpc[u] \in {"done", "rejected"}
   /\ \A w \in Workers : ~Running(w))
    => ~is_processing /\ video_queue = << >>

\* C20 as stated: a worker that executes video_queue.get() finds the queue
\* non-empty, and a worker that has left its loop has dequeued at least one
\* job.
DequeueNeverBlocks ==
  \A w \in Workers :
    /\ wpc[w] = "get" => video_queue # << >>
    /\ wpc[w] \in {"clear", "log", "done"}
         => \E i \in DOMAIN trace : trace[i].kind = "dequeue" /\ trace[i].worker = w

\* C20 amended: a worker that executes video_queue.get() finds the queue
\* non-empty.
GetFindsJob == \A w \in Workers : wpc[w] = "get" => video_queue # << >>

SecondWorkerAtGet ==
  \E w, v \in Workers :
    /\ wpc[w] = "get"
    /\ wpc[v] \in {"log", "done"}
    /\ Len(video_queue) = 1

\* C19: the upload script is launched only after the download script has
\* returned status zero; once a script has returned a non-zero status or
\* could not be started, nothing is launched or reported after it and the
\* workflow exits with status 1; it exits with status 0 only after both
\* scripts returned zero.
ScriptFailed(e) ==
  (e.what = "returned" /\ e.rc # 0) \/ e.what = "not_found"

WorkflowStopsOnFailure ==
  /\ \A i \in DOMAIN mlog :
       (mlog[i].what = "launch" /\ mlog[i].script = "upload")
         => \E j \in 1..(i - 1) :
              mlog[j] = MEvent("returned", "download", 0, mlog[j].n)
  /\ \A i \in DOMAIN mlog :
       ScriptFailed(mlog[i]) =>
         /\ i = Len(mlog)
         /\ mpc \in {"exit1", "exited"}
         /\ exit_status \in {-1, 1}
         /\ mpc = "exited" => exit_status = 1
  /\ exit_status = 0 =>
       /\ \E j \in DOMAIN mlog : mlog[j].what = "returned" /\ mlog[j].script = "download" /\ mlog[j].rc = 0
       /\ \E j \in DOMAIN mlog : mlog[j].what = "returned" /\ mlog[j].script = "upload" /\ mlog[j].rc = 0
  /\ (\E j \in DOMAIN mlog : mlog[j].what = "completed") => exit_status = 0

UploadScriptFailed ==
  /\ mpc = "exited"
  /\ exit_status = 1
  /\ \E i \in DOMAIN mlog :
       mlog[i].what = "returned" /\ mlog[i].script = "upload" /\ mlog[i].rc = 2
====
